---- MODULE Spec2Model ----
(***************************************************************************)
(* physfs_unicode.c: the UTF-8 decoder and encoder, the transcoders        *)
(* between UTF-8 and UCS-4 / UCS-2 / UTF-16 / Latin-1, and the             *)
(* case-insensitive comparators.                                           *)
(*                                                                         *)
(* Unsigned machine words are held by their two's-complement residue: a    *)
(* w-bit value v is the integer v when v < 2^(w-1) and v - 2^w otherwise,  *)
(* so 0xFFFFFFFF is -1 and the PHYSFS_uint64 result of 0 - 4 is -4.        *)
(* ULt/UGe/UGt compare two residues as the unsigned words they stand for.  *)
(* A buffer is a sequence indexed from 1; a cursor is an index into it.    *)
(***************************************************************************)
EXTENDS Integers, Sequences, FiniteSets, TLC

VARIABLES
    op,          \* the function being run
    pc,          \* where it is: "call", "loop", "term" or "done"
    src, spos,   \* source buffer and the cursor into it
    prev,        \* the cursor before the last call of utf8codepoint
    rd,          \* highest index of src read so far (0: none)
    cp,          \* last value returned by utf8codepoint / given to the encoder
    dst,         \* the destination elements written so far, in order
    len, cap,    \* capacity left, and the capacity the caller declared
    orig,        \* the source of the call whose output is now src
    str1, str2,  \* operands of a comparator
    p1, p2,      \* their cursors
    arg1, arg2,  \* the codepoints last given to utf8codepointcmp
    n, n0,       \* the bound of the bounded comparator: left, and as passed
    rc, rc0,     \* result of the call, and of the call before it
    rev,         \* the call runs with the operands exchanged
    char_signed  \* whether plain char is signed in this build

xvars == <<src, spos, prev, rd, cp, dst, len, cap, orig>>
cvars == <<str1, str2, p1, p2, arg1, arg2, n, n0, rc, rc0, rev, char_signed>>
vars == <<op, pc, xvars, cvars>>

(***************************************************************************)
(* Bounds of the model.                                                    *)
(***************************************************************************)
MaxDecChunks == 2     \* byte groups per string given to the decoder
MaxSrcChunks == 2     \* byte groups per UTF-8 source of a transcoder
MaxSrcElems == 2      \* elements per UCS-4/UCS-2/Latin-1/UTF-16 source
MaxCmpChunks == 2     \* byte groups per operand of a comparator
MaxCap == 12          \* largest declared destination capacity
MaxN == 2             \* largest bound n of the bounded comparator
MaxOverrun == 1       \* bytes of foreign memory modelled after a terminator
CpSamples == 300      \* evenly spaced codepoints tried besides the edges

(***************************************************************************)
(* Machine arithmetic.                                                     *)
(***************************************************************************)
ULt(a, b) == IF (a < 0) = (b < 0) THEN a < b ELSE b < 0
UGt(a, b) == ULt(b, a)
UGe(a, b) == ~ULt(a, b)

Shl(x, k) == x * (2 ^ k)
Shr(x, k) == x \div (2 ^ k)

RECURSIVE BitAnd(_, _)
BitAnd(a, b) ==
    IF a = 0 \/ b = 0 THEN 0
    ELSE (IF a % 2 = 1 /\ b % 2 = 1 THEN 1 ELSE 0)
         + 2 * BitAnd(a \div 2, b \div 2)

RECURSIVE BitOr(_, _)
BitOr(a, b) ==
    IF a = 0 THEN b
    ELSE IF b = 0 THEN a
    ELSE (IF a % 2 = 1 \/ b % 2 = 1 THEN 1 ELSE 0)
         + 2 * BitOr(a \div 2, b \div 2)

RECURSIVE BitXor(_, _)
BitXor(a, b) ==
    IF a = 0 THEN b
    ELSE IF b = 0 THEN a
    ELSE (IF (a % 2) # (b % 2) THEN 1 ELSE 0)
         + 2 * BitXor(a \div 2, b \div 2)

\* (char) x stored and read back as PHYSFS_uint8: the low eight bits.
ToByte(x) == x % 256

(***************************************************************************)
(* Constants of the source.                                                *)
(***************************************************************************)
UNICODE_BOGUS_CHAR_VALUE == -1          \* 0xFFFFFFFF as a 32-bit word
UNICODE_BOGUS_CHAR_CODEPOINT == 63      \* '?'

\* The seven values of the two switch statements.
SevenSurrogates == {\hD800, \hDB7F, \hDB80, \hDBFF, \hDC00, \hDF80, \hDFFF}

(***************************************************************************)
(* Memory read by a cursor.  m is the memory image: the zero-terminated    *)
(* string followed by whatever lies after it.  Past the modelled image a   *)
(* read returns 0.                                                         *)
(***************************************************************************)
Byte(m, p) == IF p >= 1 /\ p <= Len(m) THEN m[p] ELSE 0

IsCont(b) == BitAnd(b, 128 + 64) = 128

Ret(c, nxt, last) == [cp |-> c, next |-> nxt, last |-> last]

(***************************************************************************)
(* utf8codepoint: the codepoint at cursor p of m, the cursor after the     *)
(* call (next) and the highest index the call read (last).                 *)
(***************************************************************************)
\* The two-octet branch with the lower edge of its range excluded.
utf8codepoint_two_above_80(m, p) ==
    LET octet  == Byte(m, p) - (128 + 64)
        octet2 == Byte(m, p + 1)
        retval == BitOr(Shl(octet, 6), octet2 - 128)
    IN  IF ~IsCont(octet2) THEN Ret(UNICODE_BOGUS_CHAR_VALUE, p + 1, p + 1)
        ELSE IF retval > \h80 /\ retval <= \h7FF THEN Ret(retval, p + 2, p + 1)
        ELSE Ret(UNICODE_BOGUS_CHAR_VALUE, p + 2, p + 1)

utf8codepoint_two(m, p) ==
    LET octet  == Byte(m, p) - (128 + 64)
        octet2 == Byte(m, p + 1)
        retval == BitOr(Shl(octet, 6), octet2 - 128)
    IN  IF ~IsCont(octet2) THEN Ret(UNICODE_BOGUS_CHAR_VALUE, p + 1, p + 1)
        ELSE IF retval >= \h80 /\ retval <= \h7FF THEN Ret(retval, p + 2, p + 1)
        ELSE Ret(UNICODE_BOGUS_CHAR_VALUE, p + 2, p + 1)

\* The three-octet branch with 0xFFFE and 0xFFFF let through.
utf8codepoint_three_to_ffff(m, p) ==
    LET octet  == Byte(m, p) - (128 + 64 + 32)
        octet2 == Byte(m, p + 1)
        octet3 == Byte(m, p + 2)
        retval == BitOr(BitOr(Shl(octet, 12), Shl(octet2 - 128, 6)), octet3 - 128)
    IN  IF ~IsCont(octet2) THEN Ret(UNICODE_BOGUS_CHAR_VALUE, p + 1, p + 1)
        ELSE IF ~IsCont(octet3) THEN Ret(UNICODE_BOGUS_CHAR_VALUE, p + 1, p + 2)
        ELSE IF retval \in SevenSurrogates
             THEN Ret(UNICODE_BOGUS_CHAR_VALUE, p + 3, p + 2)
        ELSE IF retval >= \h800 /\ retval <= \hFFFF THEN Ret(retval, p + 3, p + 2)
        ELSE Ret(UNICODE_BOGUS_CHAR_VALUE, p + 3, p + 2)

utf8codepoint_three(m, p) ==
    LET octet  == Byte(m, p) - (128 + 64 + 32)
        octet2 == Byte(m, p + 1)
        octet3 == Byte(m, p + 2)
        retval == BitOr(BitOr(Shl(octet, 12), Shl(octet2 - 128, 6)), octet3 - 128)
    IN  IF ~IsCont(octet2) THEN Ret(UNICODE_BOGUS_CHAR_VALUE, p + 1, p + 1)
        ELSE IF ~IsCont(octet3) THEN Ret(UNICODE_BOGUS_CHAR_VALUE, p + 1, p + 2)
        ELSE IF retval \in SevenSurrogates
             THEN Ret(UNICODE_BOGUS_CHAR_VALUE, p + 3, p + 2)
        ELSE IF retval >= \h800 /\ retval <= \hFFFD THEN Ret(retval, p + 3, p + 2)
        ELSE Ret(UNICODE_BOGUS_CHAR_VALUE, p + 3, p + 2)

utf8codepoint_four(m, p) ==
    LET octet  == Byte(m, p) - (128 + 64 + 32 + 16)
        octet2 == Byte(m, p + 1)
        octet3 == Byte(m, p + 2)
        octet4 == Byte(m, p + 3)
        retval == BitOr(BitOr(Shl(octet, 18), Shl(octet2 - 128, 12)),
                        BitOr(Shl(octet3 - 128, 6), octet4 - 128))
    IN  IF ~IsCont(octet2) THEN Ret(UNICODE_BOGUS_CHAR_VALUE, p + 1, p + 1)
        ELSE IF ~IsCont(octet3) THEN Ret(UNICODE_BOGUS_CHAR_VALUE, p + 1, p + 2)
        ELSE IF ~IsCont(octet4) THEN Ret(UNICODE_BOGUS_CHAR_VALUE, p + 1, p + 3)
        ELSE IF retval >= \h10000 /\ retval <= \h10FFFF
             THEN Ret(retval, p + 4, p + 3)
        ELSE Ret(UNICODE_BOGUS_CHAR_VALUE, p + 4, p + 3)

utf8codepoint_five(m, p) ==
    IF ~IsCont(Byte(m, p + 1)) THEN Ret(UNICODE_BOGUS_CHAR_VALUE, p + 1, p + 1)
    ELSE IF ~IsCont(Byte(m, p + 2)) THEN Ret(UNICODE_BOGUS_CHAR_VALUE, p + 1, p + 2)
    ELSE IF ~IsCont(Byte(m, p + 3)) THEN Ret(UNICODE_BOGUS_CHAR_VALUE, p + 1, p + 3)
    ELSE IF ~IsCont(Byte(m, p + 4)) THEN Ret(UNICODE_BOGUS_CHAR_VALUE, p + 1, p + 4)
    ELSE Ret(UNICODE_BOGUS_CHAR_VALUE, p + 1 + 4, p + 4)

\* (*_str)++ on entry and *_str += 6 after the fifth continuation byte.
utf8codepoint_six(m, p) ==
    IF ~IsCont(Byte(m, p + 1)) THEN Ret(UNICODE_BOGUS_CHAR_VALUE, p + 1, p + 1)
    ELSE IF ~IsCont(Byte(m, p + 2)) THEN Ret(UNICODE_BOGUS_CHAR_VALUE, p + 1, p + 2)
    ELSE IF ~IsCont(Byte(m, p + 3)) THEN Ret(UNICODE_BOGUS_CHAR_VALUE, p + 1, p + 3)
    ELSE IF ~IsCont(Byte(m, p + 4)) THEN Ret(UNICODE_BOGUS_CHAR_VALUE, p + 1, p + 4)
    ELSE IF ~IsCont(Byte(m, p + 5)) THEN Ret(UNICODE_BOGUS_CHAR_VALUE, p + 1, p + 5)
    ELSE Ret(UNICODE_BOGUS_CHAR_VALUE, p + 1 + 6, p + 5)

utf8codepoint(m, p) ==
    LET octet == Byte(m, p)
    IN  IF octet = 0 THEN Ret(0, p, p)
        ELSE IF octet < 128 THEN Ret(octet, p + 1, p)
        ELSE IF octet > 127 /\ octet < 192
             THEN Ret(UNICODE_BOGUS_CHAR_VALUE, p + 1, p)
        ELSE IF octet < 224 THEN utf8codepoint_two(m, p)
        ELSE IF octet < 240 THEN utf8codepoint_three(m, p)
        ELSE IF octet < 248 THEN utf8codepoint_four(m, p)
        ELSE IF octet < 252 THEN utf8codepoint_five(m, p)
        ELSE utf8codepoint_six(m, p)

(***************************************************************************)
(* utf8fromcodepoint: the bytes appended for codepoint c with l bytes of   *)
(* capacity left, and the capacity left afterwards.                        *)
(***************************************************************************)
Enc(bytes, l) == [out |-> bytes, len |-> l]

\* The replacement of illegal values that precedes the encoding.
Sanitize(c) ==
    IF UGt(c, \h10FFFF) THEN UNICODE_BOGUS_CHAR_CODEPOINT
    ELSE IF c = \hFFFE \/ c = \hFFFF THEN UNICODE_BOGUS_CHAR_CODEPOINT
    ELSE IF c \in SevenSurrogates THEN UNICODE_BOGUS_CHAR_CODEPOINT
    ELSE c

\* No room, and the capacity left as it was.
NoRoom_keeps_len(l) == Enc(<<>>, l)

\* if (len < width) len = 0;  nothing is written.
NoRoom(l) == Enc(<<>>, 0)

utf8fromcodepoint(c, l) ==
    IF l = 0 THEN Enc(<<>>, l)
    ELSE LET x == Sanitize(c) IN
        IF x < \h80 THEN Enc(<<ToByte(x)>>, l - 1)
        ELSE IF x < \h800 THEN
            IF ULt(l, 2) THEN NoRoom(l)
            ELSE Enc(<<ToByte(BitOr(Shr(x, 6), 128 + 64)),
                       ToByte(BitOr(BitAnd(x, \h3F), 128))>>, l - 2)
        ELSE IF x < \h10000 THEN
            IF ULt(l, 3) THEN NoRoom(l)
            ELSE Enc(<<ToByte(BitOr(Shr(x, 12), 128 + 64 + 32)),
                       ToByte(BitOr(BitAnd(Shr(x, 6), \h3F), 128)),
                       ToByte(BitOr(BitAnd(x, \h3F), 128))>>, l - 3)
        ELSE
            IF ULt(l, 4) THEN NoRoom(l)
            ELSE Enc(<<ToByte(BitOr(Shr(x, 18), 128 + 64 + 32 + 16)),
                       ToByte(BitOr(BitAnd(Shr(x, 12), \h3F), 128)),
                       ToByte(BitOr(BitAnd(Shr(x, 6), \h3F), 128)),
                       ToByte(BitOr(BitAnd(x, \h3F), 128))>>, l - 4)

(***************************************************************************)
(* The case-fold table of physfs_casefolding.h: 256 hash buckets of        *)
(* (from, to0, to1, to2) entries.  The entries kept here are the Latin     *)
(* capitals, each folding to its small letter, and U+00DF, folding to the  *)
(* two codepoints 's' 's'.                                                 *)
(***************************************************************************)
CaseFoldMapping(from, to0, to1, to2) ==
    [from |-> from, to0 |-> to0, to1 |-> to1, to2 |-> to2]

CaseFoldEntries ==
    [i \in 1..26 |-> CaseFoldMapping(64 + i, 96 + i, 0, 0)]
    \o <<CaseFoldMapping(\hDF, \h73, \h73, 0)>>

\* ((from ^ (from >> 8)) & 0xFF), taken bytewise so that it is defined on
\* the residue of a word above 0x7FFFFFFF as well.
FoldHash(from) == BitXor(from % 256, Shr(from, 8) % 256)

case_fold_hash(hashed) ==
    LET list == SelectSeq(CaseFoldEntries, LAMBDA e : FoldHash(e.from) = hashed)
    IN  [count |-> Len(list), list |-> list]

locate_case_fold_mapping(from) ==
    LET bucket == case_fold_hash(FoldHash(from))
        hits   == {i \in 1..bucket.count : bucket.list[i].from = from}
    IN  IF hits # {}
        THEN LET mapping == bucket.list[CHOOSE i \in hits : \A j \in hits : i <= j]
             IN  <<mapping.to0, mapping.to1, mapping.to2>>
        ELSE <<from, 0, 0>>

\* The comparator without the comparison of the second and third slots.
utf8codepointcmp_first_slot(cp1, cp2) ==
    IF cp1 = cp2 THEN 0
    ELSE LET folded1 == locate_case_fold_mapping(cp1)
             folded2 == locate_case_fold_mapping(cp2)
         IN  IF ULt(folded1[1], folded2[1]) THEN -1
             ELSE IF UGt(folded1[1], folded2[1]) THEN 1
             ELSE 0

utf8codepointcmp(cp1, cp2) ==
    IF cp1 = cp2 THEN 0
    ELSE LET folded1 == locate_case_fold_mapping(cp1)
             folded2 == locate_case_fold_mapping(cp2)
         IN  IF ULt(folded1[1], folded2[1]) THEN -1
             ELSE IF UGt(folded1[1], folded2[1]) THEN 1
             ELSE IF ULt(folded1[2], folded2[2]) THEN -1
             ELSE IF UGt(folded1[2], folded2[2]) THEN 1
             ELSE IF ULt(folded1[3], folded2[3]) THEN -1
             ELSE IF UGt(folded1[3], folded2[3]) THEN 1
             ELSE 0

\* A char of the ASCII comparators: the byte itself where char is unsigned,
\* its signed reading where char is signed.
AsChar(b, signed) == IF signed /\ b >= 128 THEN b - 256 ELSE b

\* ((ch >= 'A') && (ch <= 'Z')) ? (ch+32) : ch
AsciiFold(ch) == IF ch >= 65 /\ ch <= 90 THEN ch + 32 ELSE ch

(***************************************************************************)
(* Inputs.                                                                 *)
(***************************************************************************)
RECURSIVE Concats(_, _)
Concats(C, k) ==
    IF k = 0 THEN {<<>>}
    ELSE LET S == Concats(C, k - 1) IN S \cup {s \o c : s \in S, c \in C}

Prefixes(s) == {SubSeq(s, 1, k) : k \in 1..Len(s)}

Z(s) == s \o <<0>>

\* Complete sequences of every lead form, every truncation of them, a lone
\* continuation byte and an overlong form.
DecChunks ==
    Prefixes(<<\h41>>) \cup Prefixes(<<\h80>>)
    \cup Prefixes(<<\hC3, \h9F>>) \cup Prefixes(<<\hC0, \h80>>)
    \cup Prefixes(<<\hE2, \h82, \hAC>>) \cup Prefixes(<<\hED, \hA0, \h80>>)
    \cup Prefixes(<<\hEF, \hBF, \hBE>>) \cup Prefixes(<<\hEF, \hBF, \hBF>>)
    \cup Prefixes(<<\hF0, \h90, \h80, \h80>>)
    \cup Prefixes(<<\hF4, \h90, \h80, \h80>>)
    \cup Prefixes(<<\hF8, \h88, \h80, \h80, \h80>>)
    \cup Prefixes(<<\hFC, \h84, \h80, \h80, \h80, \h80>>)

DecSources == {Z(s) : s \in Concats(DecChunks, MaxDecChunks)}

SrcChunks ==
    { <<\h41>>, <<\h80>>, <<\hC3, \h9F>>, <<\hC3>>, <<\hE2, \h82, \hAC>>,
      <<\hEF, \hBF, \hBE>>, <<\hF0, \h90, \h80, \h80>>,
      <<\hF4, \h8F, \hBF, \hBF>>, <<\hF0, \h90>>,
      <<\hFC, \h84, \h80, \h80, \h80, \h80>> }

Utf8Sources == {Z(s) : s \in Concats(SrcChunks, MaxSrcChunks)}

\* Codepoints at the edges of the encoder's ranges, and CpSamples more
\* spread evenly over [1, 0x10FFFF].
CpEdges ==
    { 1, \h7F, \h80, \h7FF, \h800, \hD7FF, \hD800, \hD801, \hDFFF, \hE000,
      \hFFFD, \hFFFE, \hFFFF, \h10000, \h10FFFF, \h110000 }

CpSample == CpEdges \cup {1 + k * (\h10FFFF \div CpSamples) : k \in 0..(CpSamples - 1)}

Elems(S, k) == UNION {[1..j -> S] : j \in 0..k}

Ucs4Elems == {\h41, \hDF, \h20AC, \hFFFE, \hD800, \h10000, \h110000, UNICODE_BOGUS_CHAR_VALUE}
Ucs2Elems == {\h41, \hDF, \h20AC, \hFFFF, \hDC00, \hD801}
Latin1Elems == {\h41, \hDF, \hFF}
Utf16Elems == {\h41, \h20AC, \hD800, \hD801, \hDBFF, \hDC00, \hDC01, \hDFFF}

Ucs4Sources == {Z(s) : s \in Elems(Ucs4Elems, MaxSrcElems)} \cup {<<c, 0>> : c \in CpSample}
Ucs2Sources == {Z(s) : s \in Elems(Ucs2Elems, MaxSrcElems)}
Latin1Sources == {Z(s) : s \in Elems(Latin1Elems, MaxSrcElems)}
Utf16Sources == {Z(s) : s \in Elems(Utf16Elems, MaxSrcElems)}

Strasse_sz == <<\h53, \h74, \h72, \h61, \hC3, \h9F, \h65, 0>>     \* "Stra\xC3\x9Fe"
STRASSE == <<\h53, \h54, \h52, \h41, \h53, \h53, \h45, 0>>        \* "STRASSE"
Hello == <<\h48, \h65, \h6C, \h6C, \h6F, 0>>                      \* "Hello"
HELP == <<\h48, \h45, \h4C, \h50, 0>>                             \* "HELP"

\* 's', '?', a lone continuation byte, U+00DF and a complete 6-byte form.
CmpChunks ==
    { <<\h73>>, <<\h3F>>, <<\h80>>, <<\hC3, \h9F>>,
      <<\hFC, \h84, \h80, \h80, \h80, \h80>> }

CmpStrings ==
    {Z(s) : s \in Concats(CmpChunks, MaxCmpChunks)}
    \cup {Strasse_sz, STRASSE, Hello, HELP}

\* What may lie after a terminator: MaxOverrun bytes, each a letter or zero.
Tails == [1..MaxOverrun -> {0, \h41}]

\* The memory a call of utf8codepoint at cursor p of s may find after s.  A
\* call that starts inside s stops at the terminator at the latest, so what
\* follows s matters only to a call that starts beyond it.
Foreign(s, p) == IF p > Len(s) THEN Tails ELSE {<<>>}

(***************************************************************************)
(* Initial states: one call, with its arguments.                           *)
(***************************************************************************)
Max(a, b) == IF a >= b THEN a ELSE b

NoCompare ==
    /\ str1 = <<0>> /\ str2 = <<0>> /\ p1 = 1 /\ p2 = 1 /\ arg1 = 0 /\ arg2 = 0
    /\ n = 0 /\ n0 = 0 /\ rc = 0 /\ rc0 = 0 /\ rev = FALSE /\ char_signed = FALSE

NoTranscode ==
    /\ src = <<0>> /\ spos = 1 /\ prev = 1 /\ rd = 0 /\ cp = 0
    /\ dst = <<>> /\ len = 0 /\ cap = 0 /\ orig = <<>>

FromUtf8Ops == {"utf8ToUcs4", "utf8ToUcs2", "utf8ToUtf16"}
ToUtf8Ops == {"utf8FromUcs4", "utf8FromUcs2", "utf8FromLatin1", "utf8FromUtf16"}
UnicodeCmpOps == {"utf8stricmp", "utf8strnicmp"}

InitDecode ==
    /\ op = "utf8codepoint" /\ pc = "loop"
    /\ src \in DecSources
    /\ spos = 1 /\ prev = 1 /\ rd = 0 /\ cp = 0
    /\ dst = <<>> /\ len = 0 /\ cap = 0 /\ orig = <<>>
    /\ NoCompare

InitTranscode ==
    /\ pc = "call"
    /\ \/ op \in FromUtf8Ops /\ src \in Utf8Sources
       \/ op = "utf8FromUcs4" /\ src \in Ucs4Sources
       \/ op = "utf8FromUcs2" /\ src \in Ucs2Sources
       \/ op = "utf8FromLatin1" /\ src \in Latin1Sources
       \/ op = "utf8FromUtf16" /\ src \in Utf16Sources
    /\ cap \in 0..MaxCap
    /\ len = cap
    /\ spos = 1 /\ prev = 1 /\ rd = 0 /\ cp = 0 /\ dst = <<>> /\ orig = <<>>
    /\ NoCompare

InitCompare ==
    /\ pc = "loop"
    /\ str1 \in CmpStrings /\ str2 \in CmpStrings
    /\ \/ op = "utf8stricmp" /\ n = 0 /\ char_signed = FALSE
       \/ op = "utf8strnicmp" /\ n \in 0..MaxN /\ char_signed = FALSE
       \/ op = "stricmpASCII" /\ n = 0 /\ char_signed \in BOOLEAN
    /\ n0 = n
    /\ p1 = 1 /\ p2 = 1 /\ arg1 = 0 /\ arg2 = 0 /\ rc = 0 /\ rc0 = 0 /\ rev = FALSE
    /\ NoTranscode

Init == InitDecode \/ InitTranscode \/ InitCompare

(***************************************************************************)
(* A caller of utf8codepoint: one call per step, until it returns 0.       *)
(***************************************************************************)
DecodeNext ==
    /\ op = "utf8codepoint" /\ pc = "loop"
    /\ \E g \in Foreign(src, spos) :
        LET r == utf8codepoint(src \o g, spos)
        IN  /\ cp' = r.cp
            /\ prev' = spos
            /\ spos' = r.next
            /\ rd' = Max(rd, r.last)
            /\ pc' = IF r.cp = 0 THEN "done" ELSE "loop"
    /\ UNCHANGED <<op, src, dst, len, cap, orig, cvars>>

(***************************************************************************)
(* PHYSFS_utf8ToUcs4, PHYSFS_utf8ToUcs2, PHYSFS_utf8ToUtf16.  Each *Units  *)
(* is the body of the loop after the decoder returned a non-zero c with l  *)
(* bytes left: the elements stored, and brk when the loop is left instead. *)
(***************************************************************************)
Units(u, brk) == [units |-> u, brk |-> brk]

\* The loop body of PHYSFS_utf8ToUcs4 without the test for the sentinel.
utf8ToUcs4_units_unreplaced(c, l) == Units(<<c>>, FALSE)

utf8ToUcs4_units(c, l) ==
    Units(<<IF c = UNICODE_BOGUS_CHAR_VALUE THEN UNICODE_BOGUS_CHAR_CODEPOINT ELSE c>>,
          FALSE)

utf8ToUcs2_units(c, l) ==
    LET x == IF c = UNICODE_BOGUS_CHAR_VALUE THEN UNICODE_BOGUS_CHAR_CODEPOINT ELSE c
    IN  Units(<<IF UGt(x, \hFFFF) THEN UNICODE_BOGUS_CHAR_CODEPOINT ELSE x>>, FALSE)

utf8ToUtf16_units(c, l) ==
    LET x == IF c = UNICODE_BOGUS_CHAR_VALUE THEN UNICODE_BOGUS_CHAR_CODEPOINT ELSE c
    IN  IF UGt(x, \hFFFF)
        THEN IF ULt(l, 2 * 2) THEN Units(<<>>, TRUE)
             ELSE LET y == x - \h10000
                  IN  Units(<<\hD800 + BitAnd(Shr(y, 10), \h3FF),
                              \hDC00 + BitAnd(y, \h3FF)>>, FALSE)
        ELSE Units(<<x>>, FALSE)

ElemSize(o) ==
    IF o = "utf8ToUcs4" THEN 4
    ELSE IF o \in {"utf8ToUcs2", "utf8ToUtf16"} THEN 2
    ELSE 1

LoopUnits(o, c, l) ==
    IF o = "utf8ToUcs4" THEN utf8ToUcs4_units(c, l)
    ELSE IF o = "utf8ToUcs2" THEN utf8ToUcs2_units(c, l)
    ELSE utf8ToUtf16_units(c, l)

\* len -= sizeof (elem);   /* save room for null char. */
Utf8ToEnter ==
    /\ op \in FromUtf8Ops /\ pc = "call"
    /\ len' = len - ElemSize(op)
    /\ pc' = "loop"
    /\ UNCHANGED <<op, src, spos, prev, rd, cp, dst, cap, orig, cvars>>

\* while (len >= sizeof (elem)) { ... }
Utf8ToLoop ==
    /\ op \in FromUtf8Ops /\ pc = "loop"
    /\ IF ULt(len, ElemSize(op))
       THEN pc' = "term" /\ UNCHANGED <<spos, prev, rd, cp, dst, len>>
       ELSE \E g \in Foreign(src, spos) :
            LET r == utf8codepoint(src \o g, spos)
                u == LoopUnits(op, r.cp, len)
            IN  /\ cp' = r.cp
                /\ prev' = spos
                /\ spos' = r.next
                /\ rd' = Max(rd, r.last)
                /\ IF r.cp = 0 \/ u.brk
                   THEN pc' = "term" /\ UNCHANGED <<dst, len>>
                   ELSE /\ dst' = dst \o u.units
                        /\ len' = len - ElemSize(op) * Len(u.units)
                        /\ pc' = "loop"
    /\ UNCHANGED <<op, src, cap, orig, cvars>>

\* *dst = 0;
Utf8ToTerm ==
    /\ op \in FromUtf8Ops /\ pc = "term"
    /\ dst' = Append(dst, 0)
    /\ pc' = "done"
    /\ UNCHANGED <<op, src, spos, prev, rd, cp, len, cap, orig, cvars>>

(***************************************************************************)
(* UTF8FROMTYPE (PHYSFS_utf8FromUcs4, PHYSFS_utf8FromUcs2,                 *)
(* PHYSFS_utf8FromLatin1) and PHYSFS_utf8FromUtf16.                        *)
(***************************************************************************)
\* PHYSFS_utf8FromUtf16's step without the test for an orphaned low
\* surrogate.
utf8FromUtf16_next_no_orphan_test(s, p) ==
    LET c == s[p]
    IN  IF c >= \hD800 /\ c <= \hDBFF
        THEN LET pair == s[p + 1]
             IN  IF pair < \hDC00 \/ pair > \hDFFF
                 THEN [cp |-> UNICODE_BOGUS_CHAR_CODEPOINT, next |-> p + 1]
                 ELSE [cp |-> BitOr(Shl(c - \hD800, 10), pair - \hDC00),
                       next |-> p + 2]
        ELSE [cp |-> c, next |-> p + 1]

\* The codepoint PHYSFS_utf8FromUtf16 takes at cursor p, and the cursor
\* after it.
utf8FromUtf16_next(s, p) ==
    LET c == s[p]
    IN  IF c >= \hDC00 /\ c <= \hDFFF
        THEN [cp |-> UNICODE_BOGUS_CHAR_CODEPOINT, next |-> p + 1]
        ELSE IF c >= \hD800 /\ c <= \hDBFF
        THEN LET pair == s[p + 1]
             IN  IF pair < \hDC00 \/ pair > \hDFFF
                 THEN [cp |-> UNICODE_BOGUS_CHAR_CODEPOINT, next |-> p + 1]
                 ELSE [cp |-> BitOr(Shl(c - \hD800, 10), pair - \hDC00),
                       next |-> p + 2]
        ELSE [cp |-> c, next |-> p + 1]

\* Each typ of UTF8FROMTYPE is at least as wide as the element it is applied
\* to, so (PHYSFS_uint32) ((typ) (*(src++))) is the element.
UTF8FROMTYPE_next(s, p) == [cp |-> s[p], next |-> p + 1]

SourceNext(o, s, p) ==
    IF o = "utf8FromUtf16" THEN utf8FromUtf16_next(s, p) ELSE UTF8FROMTYPE_next(s, p)

\* if (len == 0) return;  len--;
Utf8FromEnter ==
    /\ op \in ToUtf8Ops /\ pc = "call"
    /\ IF len = 0
       THEN pc' = "done" /\ UNCHANGED len
       ELSE pc' = "loop" /\ len' = len - 1
    /\ UNCHANGED <<op, src, spos, prev, rd, cp, dst, cap, orig, cvars>>

\* while (len) { cp = ...; if (cp == 0) break; utf8fromcodepoint(cp, &dst, &len); }
Utf8FromLoop ==
    /\ op \in ToUtf8Ops /\ pc = "loop"
    /\ IF len = 0
       THEN pc' = "term" /\ UNCHANGED <<spos, prev, rd, cp, dst, len>>
       ELSE IF src[spos] = 0
       THEN /\ pc' = "term" /\ cp' = 0 /\ prev' = spos /\ spos' = spos + 1
            /\ rd' = Max(rd, spos)
            /\ UNCHANGED <<dst, len>>
       ELSE LET r == SourceNext(op, src, spos)
                e == utf8fromcodepoint(r.cp, len)
            IN  /\ cp' = r.cp
                /\ prev' = spos
                /\ spos' = r.next
                /\ rd' = Max(rd, r.next - 1)
                /\ dst' = dst \o e.out
                /\ len' = e.len
                /\ pc' = "loop"
    /\ UNCHANGED <<op, src, cap, orig, cvars>>

\* *dst = '\0';
Utf8FromTerm ==
    /\ op \in ToUtf8Ops /\ pc = "term"
    /\ dst' = Append(dst, 0)
    /\ pc' = "done"
    /\ UNCHANGED <<op, src, spos, prev, rd, cp, len, cap, orig, cvars>>

(***************************************************************************)
(* Callers that hand the output of one call to the next.                   *)
(***************************************************************************)
\* PHYSFS_utf8ToUtf16's output transcoded back by PHYSFS_utf8FromUtf16, with
\* the same declared capacity.
FeedUtf16 ==
    /\ op = "utf8ToUtf16" /\ pc = "done"
    /\ op' = "utf8FromUtf16" /\ pc' = "call"
    /\ orig' = src /\ src' = dst
    /\ spos' = 1 /\ prev' = 1 /\ rd' = 0 /\ cp' = 0
    /\ dst' = <<>> /\ len' = cap
    /\ UNCHANGED <<cap, cvars>>

\* PHYSFS_utf8FromUcs4's output decoded from its first byte.
FeedDecode ==
    /\ op = "utf8FromUcs4" /\ pc = "done" /\ dst # <<>>
    /\ op' = "utf8codepoint" /\ pc' = "loop"
    /\ orig' = src /\ src' = dst
    /\ spos' = 1 /\ prev' = 1 /\ rd' = 0 /\ cp' = 0
    /\ dst' = <<>>
    /\ UNCHANGED <<len, cap, cvars>>

(***************************************************************************)
(* __PHYSFS_utf8stricmp, __PHYSFS_utf8strnicmp, __PHYSFS_stricmpASCII:     *)
(* one iteration of the loop per step.                                     *)
(***************************************************************************)
\* The iteration shared by the two Unicode comparators: decode one codepoint
\* of each operand, compare, return on a difference or at the terminator.
CmpIteration(bounded) ==
    \E g1 \in Foreign(str1, p1), g2 \in Foreign(str2, p2) :
        LET r1 == utf8codepoint(str1 \o g1, p1)
            r2 == utf8codepoint(str2 \o g2, p2)
            c  == utf8codepointcmp(r1.cp, r2.cp)
        IN  /\ arg1' = r1.cp /\ arg2' = r2.cp
            /\ p1' = r1.next /\ p2' = r2.next
            /\ IF c # 0 THEN rc' = c /\ pc' = "done" /\ UNCHANGED n
               ELSE IF r1.cp = 0 THEN rc' = 0 /\ pc' = "done" /\ UNCHANGED n
               ELSE /\ UNCHANGED rc /\ pc' = "loop"
                    /\ n' = IF bounded THEN n - 1 ELSE n

utf8stricmp ==
    /\ op = "utf8stricmp" /\ pc = "loop"
    /\ CmpIteration(FALSE)
    /\ UNCHANGED <<op, xvars, str1, str2, n0, rc0, rev, char_signed>>

utf8strnicmp ==
    /\ op = "utf8strnicmp" /\ pc = "loop"
    /\ IF n > 0
       THEN CmpIteration(TRUE)
       ELSE rc' = 0 /\ pc' = "done" /\ UNCHANGED <<p1, p2, arg1, arg2, n>>
    /\ UNCHANGED <<op, xvars, str1, str2, n0, rc0, rev, char_signed>>

stricmpASCII ==
    /\ op = "stricmpASCII" /\ pc = "loop"
    /\ LET ch1 == AsChar(str1[p1], char_signed)
           ch2 == AsChar(str2[p2], char_signed)
           c1  == AsciiFold(ch1)
           c2  == AsciiFold(ch2)
       IN  /\ p1' = p1 + 1 /\ p2' = p2 + 1
           /\ arg1' = c1 /\ arg2' = c2
           /\ IF c1 < c2 THEN rc' = -1 /\ pc' = "done"
              ELSE IF c1 > c2 THEN rc' = 1 /\ pc' = "done"
              ELSE IF c1 = 0 THEN rc' = 0 /\ pc' = "done"
              ELSE UNCHANGED rc /\ pc' = "loop"
    /\ UNCHANGED <<op, xvars, str1, str2, n, n0, rc0, rev, char_signed>>

\* The same comparator called again with the operands exchanged.
Exchange ==
    /\ op \in UnicodeCmpOps /\ pc = "done" /\ ~rev
    /\ str1' = str2 /\ str2' = str1
    /\ p1' = 1 /\ p2' = 1 /\ arg1' = 0 /\ arg2' = 0
    /\ n' = n0 /\ rc0' = rc /\ rc' = 0 /\ rev' = TRUE
    /\ pc' = "loop"
    /\ UNCHANGED <<op, xvars, n0, char_signed>>

Next ==
    \/ DecodeNext
    \/ Utf8ToEnter \/ Utf8ToLoop \/ Utf8ToTerm
    \/ Utf8FromEnter \/ Utf8FromLoop \/ Utf8FromTerm
    \/ FeedUtf16 \/ FeedDecode
    \/ utf8stricmp \/ utf8strnicmp \/ stricmpASCII
    \/ Exchange

Spec == Init /\ [][Next]_vars

(***************************************************************************)
(* Properties.                                                             *)
(***************************************************************************)
TranscodeOps == FromUtf8Ops \cup ToUtf8Ops

\* C1: in every transcoder the destination elements written, the terminator
\* included, never exceed the declared capacity (cap counts bytes, as len
\* does in the source); with capacity 0 nothing at all is written.
C1_WritesWithinCapacity ==
    op \in TranscodeOps => Len(dst) * ElemSize(op) <= cap

\* The sequence of the given lead form is complete at cursor p of s.
CompleteAt(s, p, lead, width) ==
    /\ p + width - 1 < Len(s)
    /\ s[p] >= lead /\ s[p] < lead + 4
    /\ \A i \in 1..(width - 1) : IsCont(s[p + i])

\* C2: over successive calls of utf8codepoint on a zero-terminated string the
\* cursor never passes the first zero byte and no byte after it is read; a
\* complete 5-byte or 6-byte form leaves the cursor just after its last
\* continuation byte.
C2_CursorWithinString ==
    op = "utf8codepoint" =>
        /\ spos <= Len(src)
        /\ rd <= Len(src)
        /\ (rd >= 1 /\ CompleteAt(src, prev, \hF8, 5)) => spos = prev + 5
        /\ (rd >= 1 /\ CompleteAt(src, prev, \hFC, 6)) => spos = prev + 6

StrasseCall(o) ==
    op = o /\ pc = "done" /\ ~rev /\ str1 = Strasse_sz /\ str2 = STRASSE

\* C4 as stated: "Stra\xC3\x9Fe" against "STRASSE" is 0 under
\* __PHYSFS_utf8stricmp and non-zero under __PHYSFS_stricmpASCII.
C4_StrasseEqual ==
    /\ StrasseCall("utf8stricmp") => rc = 0
    /\ StrasseCall("stricmpASCII") => rc # 0

\* C4 as amended: the operands are decoded one codepoint each in lock-step,
\* so U+00DF (fold 's','s') meets the single 'S' (fold 's') and
\* "Stra\xC3\x9Fe" against "STRASSE" is 1 under __PHYSFS_utf8stricmp, -1 with
\* the operands exchanged; under __PHYSFS_stricmpASCII it is non-zero too.
C4_StrasseUnequal ==
    /\ StrasseCall("utf8stricmp") => rc = 1
    /\ (op = "utf8stricmp" /\ pc = "done" /\ rev
        /\ str1 = STRASSE /\ str2 = Strasse_sz) => rc = -1
    /\ StrasseCall("stricmpASCII") => rc = (IF char_signed THEN -1 ELSE 1)

C4_Witness ==
    StrasseCall("utf8stricmp") /\ arg1 = \hDF /\ arg2 = \h53 /\ rc = 1

ValidScalar(c) ==
    /\ c >= 1 /\ c <= \h10FFFF
    /\ ~(c >= \hD800 /\ c <= \hDFFF)
    /\ c # \hFFFE /\ c # \hFFFF

\* The first call of utf8codepoint on the bytes the encoder wrote for the
\* single codepoint of orig, given room for four bytes and the terminator.
FirstDecodeOfEncoded ==
    /\ op = "utf8codepoint" /\ Len(orig) = 2 /\ cap >= 5
    /\ rd >= 1 /\ prev = 1

\* C5: a codepoint of [1, 0x10FFFF] outside [0xD800, 0xDFFF] and other than
\* 0xFFFE and 0xFFFF, encoded and then decoded from the start of the buffer,
\* comes back unchanged, the cursor advanced by the bytes the encoder wrote.
C5_EncodeDecode ==
    (FirstDecodeOfEncoded /\ ValidScalar(orig[1])) =>
        /\ cp = orig[1]
        /\ spos - 1 = Len(src) - 1

C5_Witness ==
    /\ FirstDecodeOfEncoded /\ orig[1] = \h10FFFF
    /\ src = <<\hF4, \h8F, \hBF, \hBF, 0>> /\ cp = \h10FFFF /\ spos = 5

\* C6: the Unicode comparators are antisymmetric: the call with the operands
\* exchanged (and the same n) returns the opposite sign.
C6_Antisymmetry ==
    (op \in UnicodeCmpOps /\ rev /\ pc = "done") => rc = 0 - rc0

IsHigh(c) == c >= \hD800 /\ c <= \hDBFF
IsLow(c) == c >= \hDC00 /\ c <= \hDFFF

\* No high surrogate of s is followed by a low surrogate.
NoPair(s) == \A i \in 1..(Len(s) - 1) : ~(IsHigh(s[i]) /\ IsLow(s[i + 1]))

\* One '?' per surrogate, every other element encoded on its own.
RECURSIVE LoneExpected(_, _)
LoneExpected(s, i) ==
    IF s[i] = 0 THEN <<0>>
    ELSE (IF IsHigh(s[i]) \/ IsLow(s[i])
          THEN <<UNICODE_BOGUS_CHAR_CODEPOINT>>
          ELSE utf8fromcodepoint(s[i], 4).out)
         \o LoneExpected(s, i + 1)

\* C7: PHYSFS_utf8FromUtf16 with room to spare writes exactly one '?' for a
\* high surrogate not followed by a low one, without consuming the element
\* after it, and one '?' for a low surrogate that follows no high one:
\* 0xD800 0x0041 gives "?A".
C7_LoneSurrogates ==
    (op = "utf8FromUtf16" /\ pc = "done") =>
        /\ (NoPair(src) /\ cap >= Len(LoneExpected(src, 1)))
               => dst = LoneExpected(src, 1)
        /\ (src = <<\hD800, \h41, 0>> /\ cap >= 3) => dst = <<\h3F, \h41, 0>>

C7_Witness ==
    /\ op = "utf8FromUtf16" /\ pc = "done"
    /\ src = <<\hD800, \h41, 0>> /\ dst = <<\h3F, \h41, 0>>

\* C8 as stated: EF BF BE and EF BF BF decode to 0xFFFE and 0xFFFF, the
\* cursor advanced by 3.
C8_NoncharactersDecode ==
    (op = "utf8codepoint" /\ rd >= 1 /\ prev + 2 < Len(src)
     /\ src[prev] = \hEF /\ src[prev + 1] = \hBF
     /\ src[prev + 2] \in {\hBE, \hBF}) =>
        /\ cp = (IF src[prev + 2] = \hBE THEN \hFFFE ELSE \hFFFF)
        /\ spos = prev + 3

\* C8 as amended: EF BF BE and EF BF BF decode to the sentinel, the cursor
\* advanced by 3; the encoder replaces 0xFFFE and 0xFFFF by '?' as well, so
\* the two values are rejected on both sides.
C8_NoncharactersBogus ==
    /\ (op = "utf8codepoint" /\ rd >= 1 /\ prev + 2 < Len(src)
        /\ src[prev] = \hEF /\ src[prev + 1] = \hBF
        /\ src[prev + 2] \in {\hBE, \hBF}) =>
           /\ cp = UNICODE_BOGUS_CHAR_VALUE
           /\ spos = prev + 3
    /\ (op = "utf8FromUcs4" /\ pc = "done" /\ cap >= 2
        /\ src \in {<<\hFFFE, 0>>, <<\hFFFF, 0>>}) =>
           dst = <<UNICODE_BOGUS_CHAR_CODEPOINT, 0>>

C8_Witness ==
    /\ op = "utf8codepoint" /\ orig = <<>>
    /\ src = <<\hEF, \hBF, \hBE, 0>> /\ prev = 1 /\ spos = 4
    /\ cp = UNICODE_BOGUS_CHAR_VALUE

\* Width announced by a lead byte of the 1- to 4-byte forms, else 0.
LeadWidth(b) ==
    IF b < \h80 THEN 1
    ELSE IF b >= \hC0 /\ b < \hE0 THEN 2
    ELSE IF b >= \hE0 /\ b < \hF0 THEN 3
    ELSE IF b >= \hF0 /\ b < \hF8 THEN 4
    ELSE 0

\* b is a concatenation of complete 1- to 4-byte sequences.
RECURSIVE CompleteSequences(_)
CompleteSequences(b) ==
    \/ b = <<>>
    \/ LET w == LeadWidth(b[1])
       IN  /\ w >= 1 /\ Len(b) >= w
           /\ \A i \in 2..w : IsCont(b[i])
           /\ CompleteSequences(SubSeq(b, w + 1, Len(b)))

\* The codepoints a transcoder to UTF-8 takes from s, from cursor p on.
RECURSIVE Codepoints(_, _, _)
Codepoints(o, s, p) ==
    IF s[p] = 0 THEN <<>>
    ELSE LET r == SourceNext(o, s, p) IN <<r.cp>> \o Codepoints(o, s, r.next)

\* The encodings of the leading codepoints of cps that fit into l bytes,
\* ending before the first that does not fit.
RECURSIVE FittingPrefix(_, _)
FittingPrefix(cps, l) ==
    IF cps = <<>> \/ l = 0 THEN <<>>
    ELSE LET b == utf8fromcodepoint(Head(cps), 4).out
         IN  IF Len(b) > l THEN <<>>
             ELSE b \o FittingPrefix(Tail(cps), l - Len(b))

\* C9: a transcoder to UTF-8 given capacity >= 1 never writes part of a
\* sequence: a codepoint wider than the capacity left writes nothing, sets
\* the capacity left to 0 and ends the encoding, and the terminator follows
\* the last complete sequence.
C9_NoPartialSequence ==
    (op \in ToUtf8Ops /\ cap >= 1) =>
        /\ pc \in {"loop", "term"} =>
               /\ CompleteSequences(dst)
               /\ len \in {cap - 1 - Len(dst), 0}
        /\ pc = "done" =>
               LET body == SubSeq(dst, 1, Len(dst) - 1)
               IN  /\ dst # <<>> /\ dst[Len(dst)] = 0
                   /\ CompleteSequences(body)
                   /\ body = FittingPrefix(Codepoints(op, src, 1), cap - 1)

\* U+20AC does not fit into the two bytes left, so 'A' is not encoded either.
C9_Witness ==
    /\ op = "utf8FromUcs4" /\ pc = "done" /\ cap = 3
    /\ src = <<\h20AC, \h41, 0>> /\ dst = <<0>> /\ len = 0

\* C10: the 4-byte UTF-8 form of a codepoint of [0x10000, 0x10FFFF], taken
\* through PHYSFS_utf8ToUtf16 and back through PHYSFS_utf8FromUtf16 with room
\* to spare, is reproduced byte for byte.
C10_Utf16RoundTrip ==
    (op = "utf8FromUtf16" /\ pc = "done" /\ cap >= 6
     /\ Len(orig) = 5 /\ utf8codepoint(orig, 1).next = 5
     /\ utf8codepoint(orig, 1).cp >= \h10000
     /\ utf8codepoint(orig, 1).cp <= \h10FFFF) =>
        dst = orig

====
